---- MODULE Spec2Model ----
(***************************************************************************)
(* Cross-chain (CCIP) token transfer relay.                                *)
(*                                                                         *)
(* Backend : the express route POST /api/transfer and executeTransfer with *)
(*           its three route functions (Backend/ccip-backend/src).         *)
(* Frontend: CCIPService, the transfer store kept in the browser           *)
(*           (Frontend/src/services/ccipService.ts).                       *)
(*                                                                         *)
(* Strings of the program are strings here.  An id `ccip-<n>` is the       *)
(* integer n (the formatting is injective).  A value that JavaScript       *)
(* leaves undefined is the string Undefined.  A thrown Error is a record   *)
(* [threw |-> TRUE, error |-> message]; messages keep the constant part of *)
(* the template string of the source.                                      *)
(***************************************************************************)
EXTENDS Integers, Sequences, FiniteSets, TLC

VARIABLES
    env,        \* process.env of the backend process (fixed at start)
    now,        \* Date.now(), the millisecond clock
    bk,         \* the backend request being served (route handler + executeTransfer)
    transfers,  \* CCIPService.transfers, the frontend store
    storage,    \* localStorage['ccip_transfers'], the saved JSON
    calls,      \* the frontend executeTransfer calls, each with its position
    fn,         \* the library function applied on its own: name, arguments, outcome
    transactions,             \* InvestmentService.transactions
    investment_transactions,  \* localStorage item 'investment_transactions'
    executions  \* the executeInvestment calls, each with its position

\* the state of the InvestmentService
inv == <<transactions, investment_transactions, executions>>

vars == <<env, now, bk, transfers, storage, calls, fn, inv>>

\* ---------------------------------------------------------------- bounds
MaxClock == 2
MaxCalls == 2

\* ------------------------------------------------------------- constants
Undefined == "undefined"

ETHEREUM_SEPOLIA == "ethereum-sepolia"
BASE_SEPOLIA     == "base-sepolia"
OPTIMISM_SEPOLIA == "optimism-sepolia"
BSC_TESTNET      == "bsc-testnet"
ARBITRUM_SEPOLIA == "arbitrum-sepolia"
SOLANA_DEVNET    == "solana-devnet"
SONIC_BLAZE      == "sonic-blaze"

\* a chain identifier that is a string but no member of the ChainId enum
UNLISTED_CHAIN == "polygon-amoy"

EVMChainIds == {ETHEREUM_SEPOLIA, BASE_SEPOLIA, OPTIMISM_SEPOLIA,
                BSC_TESTNET, ARBITRUM_SEPOLIA, SONIC_BLAZE}

CHAIN_SELECTORS ==
    [c \in EVMChainIds \cup {SOLANA_DEVNET} |->
        CASE c = ETHEREUM_SEPOLIA -> "16015286601757825753"
          [] c = BASE_SEPOLIA     -> "10344971235874465080"
          [] c = OPTIMISM_SEPOLIA -> "5224473277236331295"
          [] c = BSC_TESTNET      -> "13264668187771770619"
          [] c = ARBITRUM_SEPOLIA -> "3478487238524512106"
          [] c = SOLANA_DEVNET    -> "16423721717087811551"
          [] c = SONIC_BLAZE      -> "3676871237479449268"]

FeeTokenType == [NATIVE |-> "native", WRAPPED_NATIVE |-> "wrapped-native", LINK |-> "link"]

CCIPTransferStatus ==
    [PENDING |-> "pending", PROCESSING |-> "processing",
     COMPLETED |-> "completed", FAILED |-> "failed"]

ZeroAddress == "0x0000000000000000000000000000000000000000"

\* ------------------------------------------------------------ the registry
EvmName(c) ==
    CASE c = ETHEREUM_SEPOLIA -> "Ethereum Sepolia"
      [] c = BASE_SEPOLIA     -> "Base Sepolia"
      [] c = OPTIMISM_SEPOLIA -> "Optimism Sepolia"
      [] c = BSC_TESTNET      -> "BSC Testnet"
      [] c = ARBITRUM_SEPOLIA -> "Arbitrum Sepolia"
      [] c = SONIC_BLAZE      -> "Sonic Blaze"

RouterAddress(c) ==
    CASE c = ETHEREUM_SEPOLIA -> "0x0BF3dE8c5D3e8A2B34D2BEeB17ABfCeBaf363A59"
      [] c = BASE_SEPOLIA     -> "0xD3b06cEbF099CE7DA4AcCf578aaebFDBd6e88a93"
      [] c = OPTIMISM_SEPOLIA -> "0x114A20A10b43D4115e5aeef7345a1A71d2a60C57"
      [] c = BSC_TESTNET      -> "0xE1053aE1857476f36A3C62580FF9b016E8EE8F6f"
      [] c = ARBITRUM_SEPOLIA -> "0x2a9C5afB0d0e4BAb2BCdaE109EC4b0c4Be15a165"
      [] c = SONIC_BLAZE      -> "0x2fBd4659774D468Db5ca5bacE37869905d8EfA34"

BnmTokenAddress(c) ==
    CASE c = ETHEREUM_SEPOLIA -> "0xFd57b4ddBf88a4e07fF4e34C487b99af2Fe82a05"
      [] c = BASE_SEPOLIA     -> "0x88A2d74F47a237a62e7A51cdDa67270CE381555e"
      [] c = OPTIMISM_SEPOLIA -> "0x8aF4204e30565DF93352fE8E1De78925F6664dA7"
      [] c = BSC_TESTNET      -> "0xbFA2ACd33ED6EEc0ed3Cc06bF1ac38d22b36B9e9"
      [] c = ARBITRUM_SEPOLIA -> "0xA8C0c11bf64AF62CDCA6f93D3769B88BdD7cb93D"
      [] c = SONIC_BLAZE      -> "0x230c46b9a7c8929A80863bDe89082B372a4c7A99"

LinkTokenAddress(c) ==
    CASE c = ETHEREUM_SEPOLIA -> "0x779877A7B0D9E8603169DdbD7836e478b4624789"
      [] c = BASE_SEPOLIA     -> "0xE4aB69C077896252FAFBD49EFD26B5D171A32410"
      [] c = OPTIMISM_SEPOLIA -> "0xE4aB69C077896252FAFBD49EFD26B5D171A32410"
      [] c = BSC_TESTNET      -> "0x84b9B910527Ad5C03A9Ca831909E21e236EA7b06"
      [] c = ARBITRUM_SEPOLIA -> "0xb1D4538B4571d411F07960EF2838Ce337FE1E80E"
      [] c = SONIC_BLAZE      -> "0xd8C1eEE32341240A62eC8BC9988320bcC13c8580"

WrappedNativeAddress(c) ==
    CASE c = ETHEREUM_SEPOLIA -> "0x097D90c9d3E0B50Ca60e1ae45F6A81010f9FB534"
      [] c = BASE_SEPOLIA     -> "0x4200000000000000000000000000000000000006"
      [] c = OPTIMISM_SEPOLIA -> "0x4200000000000000000000000000000000000006"
      [] c = BSC_TESTNET      -> "0xae13d989daC2f0dEbFf460aC112a837C89BAa7cd"
      [] c = ARBITRUM_SEPOLIA -> "0xE591bf0A0CF924A0674d7792db046B23CEbF5f34"
      [] c = SONIC_BLAZE      -> "0x917FE4b784d1895187Df169aeCc687C03ba12662"

\* EVM_CONFIGS of the backend; rpcUrl is `process.env.<CHAIN>_RPC_URL || ""`
EVM_CONFIGS(e) ==
    [c \in EVMChainIds |->
        [id                   |-> c,
         name                 |-> EvmName(c),
         rpcUrl               |-> e.rpcUrl[c],
         chainSelector        |-> CHAIN_SELECTORS[c],
         routerAddress        |-> RouterAddress(c),
         bnmTokenAddress      |-> BnmTokenAddress(c),
         linkTokenAddress     |-> LinkTokenAddress(c),
         wrappedNativeAddress |-> WrappedNativeAddress(c),
         confirmations        |-> 3]]

\* SVM_CONFIGS of the backend; rpcUrl falls back to the public devnet endpoint.
\* SVMChainConfig declares neither chainSelector nor confirmations.
SVM_CONFIGS(e) ==
    [c \in {SOLANA_DEVNET} |->
        [id                 |-> c,
         name               |-> "Solana Devnet",
         rpcUrl             |-> IF e.solanaRpcUrl = "" THEN "https://api.devnet.solana.com"
                                                      ELSE e.solanaRpcUrl,
         routerProgramId    |-> "Ccip842gzYHhvdDkSyi2YVCoAWPbYJoApMFzSxQroE9C",
         feeQuoterProgramId |-> "FeeQPGkKDeRV1MgoYfMH6L8o3KeuYjwUZrgn4LRKfjHi",
         bnmTokenMint       |-> "3PjyGzj1jGVgHSKS4VR1Hr1memm63PmN8L9rtPDKwzZ6",
         linkTokenMint      |-> "LinkhB3afbBKb2EQQu7s7umdZceV3wcvAUJhQAfQ23L",
         wrappedNativeMint  |-> "So11111111111111111111111111111111111111112"]]

Threw(msg) == [threw |-> TRUE, error |-> msg]
Returned(v) == [threw |-> FALSE, value |-> v]

ERR_EVM_CHAIN == "Unsupported or unconfigured EVM chain ID"
ERR_SVM_CHAIN == "Unsupported SVM chain ID"
ERR_COMBINATION == "Unsupported chain combination"
ERR_EVM_KEY == "EVM private key not found in environment variables"
ERR_EVM_WALLET == "Failed to load EVM wallet"
ERR_SOL_KEY == "Solana private key not found in environment variables"
ERR_SOL_WALLET == "Failed to load Solana wallet"
ERR_SOL_ADDRESS == "Invalid Solana address"
ERR_PARSE_UNITS == "invalid FixedNumber string value"
ERR_ENCODE_UINT == "value out-of-bounds"
ERR_GET_FEE == "getFee call reverted or RPC unreachable"
ERR_CCIP_SEND == "ccipSend transaction rejected"
ERR_TX_WAIT == "transaction reverted while waiting for confirmations"

\* getEVMConfig with a silent default in place of the throw
getEVMConfig_SilentDefault(e, chainId) ==
    IF chainId \in DOMAIN EVM_CONFIGS(e)
    THEN Returned(EVM_CONFIGS(e)[chainId])
    ELSE Returned(EVM_CONFIGS(e)[ETHEREUM_SEPOLIA])

getEVMConfig(e, chainId) ==
    IF chainId \in DOMAIN EVM_CONFIGS(e)
    THEN Returned(EVM_CONFIGS(e)[chainId])
    ELSE Threw(ERR_EVM_CHAIN)

\* getSVMConfig without the test of the chain id
getSVMConfig_AnyChain(e, chainId) ==
    Returned(SVM_CONFIGS(e)[SOLANA_DEVNET])

getSVMConfig(e, chainId) ==
    IF chainId # SOLANA_DEVNET
    THEN Threw(ERR_SVM_CHAIN)
    ELSE Returned(SVM_CONFIGS(e)[chainId])

\* isEVMChain asking the registry which chains are EVM chains
isEVMChain_Listed(chainId) == chainId \in EVMChainIds

isEVMChain(chainId) == chainId # SOLANA_DEVNET

isSVMChain(chainId) == chainId = SOLANA_DEVNET


\* ------------------------------------------------------ library behaviour
EVM_RECEIVER == "0x9d087fC03ae39b088326b67fA3C788236645b717"
SOL_RECEIVER == "EPUjBP3Xf76K1VKsDSc6GupBWE8uykNksCLJgXZn87CB"
BAD_RECEIVER == "not-an-address"
CUSTOM_TOKEN == "0xA0b86991c6218b36c1d19D4a2e9Eb0cE3606eB48"
SIGNER_ADDRESS == "0xSignerAddressOfEvmPrivateKey"
SOLANA_PUBLIC_KEY == "PublicKeyOfSolanaPrivateKey"

\* ethers.isAddress: 0x followed by 40 hex digits
isAddress(s) ==
    s \in {ZeroAddress, EVM_RECEIVER, CUSTOM_TOKEN}
          \cup {RouterAddress(c) : c \in EVMChainIds}
          \cup {BnmTokenAddress(c) : c \in EVMChainIds}
          \cup {LinkTokenAddress(c) : c \in EVMChainIds}
          \cup {WrappedNativeAddress(c) : c \in EVMChainIds}

\* PublicKey.default, the all-zero key, and NATIVE_MINT of @solana/spl-token
PublicKey_default == "11111111111111111111111111111111"
NATIVE_MINT == "So11111111111111111111111111111111111111112"

\* the base58 strings of the model that decode to 32 bytes
SolanaKeys ==
    {SOL_RECEIVER, PublicKey_default, NATIVE_MINT,
     "LinkhB3afbBKb2EQQu7s7umdZceV3wcvAUJhQAfQ23L",
     "3PjyGzj1jGVgHSKS4VR1Hr1memm63PmN8L9rtPDKwzZ6"}

\* bs58.decode: the number of bytes the string decodes to, -1 when the string
\* holds a character outside the base58 alphabet (0, O, I, l, -, ...)
Base58Length(s) ==
    CASE s \in SolanaKeys -> 32
      [] s = ""           -> 0
      [] s = "abc"        -> 2
      [] OTHER            -> -1

\* new PublicKey(s): throws unless s decodes to exactly 32 bytes
PublicKey(s) ==
    IF Base58Length(s) = 32 THEN Returned(s) ELSE Threw("Invalid public key input")

\* the decimal strings the requests use, as integers; ethers.parseUnits
\* rejects the empty string and anything that is not a decimal number
DecimalValue(s) ==
    CASE s = "10" -> Returned(10)
      [] s = "0"  -> Returned(0)
      [] s = "-1" -> Returned(-1)
      [] OTHER    -> Threw(ERR_PARSE_UNITS)

\* ethers.parseUnits(s, decimals): the integer  units * 10^decimals, kept as
\* the pair because 10^18 exceeds the checker's integers
parseUnits(s, decimals) ==
    LET d == DecimalValue(s) IN
    IF d.threw THEN d
    ELSE Returned([units |-> d.value, decimals |-> decimals])

\* ethers.toUtf8Bytes(s): the bytes of the string itself
toUtf8Bytes(s) == [enc |-> "utf8", text |-> s, offset |-> 0]

\* ---------------------------------------------------- ccipService helpers
\* getFeeTokenAddress without the rule that returns an address verbatim
getFeeTokenAddress_NoVerbatim(config, feeTokenType) ==
    CASE feeTokenType = FeeTokenType.NATIVE         -> ZeroAddress
      [] feeTokenType = FeeTokenType.WRAPPED_NATIVE -> config.wrappedNativeAddress
      [] OTHER                                      -> config.linkTokenAddress

\* the backend's resolver for EVM descriptors
getFeeTokenAddress(config, feeTokenType) ==
    IF feeTokenType = Undefined \/ feeTokenType = ""
    THEN config.linkTokenAddress
    ELSE CASE feeTokenType = FeeTokenType.NATIVE         -> ZeroAddress
           [] feeTokenType = FeeTokenType.WRAPPED_NATIVE -> config.wrappedNativeAddress
           [] feeTokenType = FeeTokenType.LINK           -> config.linkTokenAddress
           [] OTHER -> IF isAddress(feeTokenType)
                       THEN feeTokenType
                       ELSE config.linkTokenAddress

\* ------------------------------------- frontend configuration helpers
\* String.prototype.toLowerCase, on the strings the model draws
ToLowerCase(s) ==
    CASE s = "NATIVE"         -> "native"
      [] s = "Link"           -> "link"
      [] s = "Wrapped-Native" -> "wrapped-native"
      [] s = CUSTOM_TOKEN     -> "0xa0b86991c6218b36c1d19d4a2e9eb0ce3606eb48"
      [] s = SOL_RECEIVER     -> "epujbp3xf76k1vksdsc6gupbwe8uyknkscljgxzn87cb"
      [] OTHER                -> s

\* SVM_CONFIGS of the frontend: the keys are PublicKey objects, the wrapped
\* native mint is NATIVE_MINT; like the backend's it has no confirmations
SVM_CONFIGS_Frontend ==
    [c \in {SOLANA_DEVNET} |->
        [id                 |-> c,
         name               |-> "Solana Devnet",
         routerProgramId    |-> "Ccip842gzYHhvdDkSyi2YVCoAWPbYJoApMFzSxQroE9C",
         feeQuoterProgramId |-> "FeeQPGkKDeRV1MgoYfMH6L8o3KeuYjwUZrgn4LRKfjHi",
         bnmTokenMint       |-> "3PjyGzj1jGVgHSKS4VR1Hr1memm63PmN8L9rtPDKwzZ6",
         linkTokenMint      |-> "LinkhB3afbBKb2EQQu7s7umdZceV3wcvAUJhQAfQ23L",
         wrappedNativeMint  |-> NATIVE_MINT,
         nativeSol          |-> PublicKey_default]]

\* getEVMFeeTokenAddress with native in place of the LINK default
getEVMFeeTokenAddress_DefaultNative(config, feeTokenType) ==
    IF feeTokenType = Undefined \/ feeTokenType = ""
    THEN ZeroAddress
    ELSE getFeeTokenAddress(config, ToLowerCase(feeTokenType))

\* the frontend's resolver for EVM descriptors: the switch is on the
\* lower-cased selection, isAddress is asked about the selection as given
getEVMFeeTokenAddress(config, feeTokenType) ==
    IF feeTokenType = Undefined \/ feeTokenType = ""
    THEN config.linkTokenAddress
    ELSE LET lower == ToLowerCase(feeTokenType) IN
         CASE lower = FeeTokenType.NATIVE         -> ZeroAddress
           [] lower = FeeTokenType.WRAPPED_NATIVE -> config.wrappedNativeAddress
           [] lower = FeeTokenType.LINK           -> config.linkTokenAddress
           [] OTHER -> IF isAddress(feeTokenType)
                       THEN feeTokenType
                       ELSE config.linkTokenAddress

\* getSVMFeeToken without the try/catch around new PublicKey
getSVMFeeToken_Uncaught(config, feeTokenType) ==
    IF feeTokenType = Undefined \/ feeTokenType = ""
    THEN Returned(PublicKey_default)
    ELSE PublicKey(feeTokenType)

\* the frontend's resolver for Solana descriptors: every default is
\* PublicKey.default, the native SOL sentinel
getSVMFeeToken(config, feeTokenType) ==
    IF feeTokenType = Undefined \/ feeTokenType = ""
    THEN Returned(PublicKey_default)
    ELSE LET lower == ToLowerCase(feeTokenType) IN
         CASE lower = FeeTokenType.NATIVE         -> Returned(PublicKey_default)
           [] lower = FeeTokenType.WRAPPED_NATIVE -> Returned(config.wrappedNativeMint)
           [] lower = FeeTokenType.LINK           -> Returned(config.linkTokenMint)
           [] OTHER -> IF PublicKey(feeTokenType).threw
                       THEN Returned(PublicKey_default)
                       ELSE PublicKey(feeTokenType)

\* encodeSolanaAddressToBytes32 without the PublicKey validation
encodeSolanaAddressToBytes32_Unvalidated(solanaAddress) ==
    Returned([enc |-> "bytes32", text |-> solanaAddress,
              offset |-> 32 - Base58Length(solanaAddress)])

encodeSolanaAddressToBytes32(solanaAddress) ==
    LET pubkey == PublicKey(solanaAddress) IN
    IF pubkey.threw
    THEN Threw(ERR_SOL_ADDRESS)
    ELSE Returned([enc |-> "bytes32", text |-> pubkey.value,
                   offset |-> 32 - Base58Length(solanaAddress)])

\* createSolanaExtraArgs demanding in-order execution
createSolanaExtraArgs_InOrder ==
    [tag |-> "0x1f3b3aba",
     computeUnits |-> 200000,
     accountIsWritableBitmap |-> 0,
     allowOutOfOrderExecution |-> FALSE,
     tokenReceiver |-> "0x0000000000000000000000000000000000000000000000000000000000000000",
     accounts |-> <<>>]

\* the SVM tag followed by the ABI encoding of the struct, kept as the tag
\* and the five values encoded
createSolanaExtraArgs ==
    [tag |-> "0x1f3b3aba",
     computeUnits |-> 200000,
     accountIsWritableBitmap |-> 0,
     allowOutOfOrderExecution |-> TRUE,
     tokenReceiver |-> "0x0000000000000000000000000000000000000000000000000000000000000000",
     accounts |-> <<>>]

NoExtraArgs == [tag |-> "0x"]

\* ---------------------------------------------------------- walletService
loadEVMWallet(e, rpcUrl) ==
    IF e.EVM_PRIVATE_KEY = ""
    THEN Threw(ERR_EVM_KEY)
    ELSE IF e.EVM_PRIVATE_KEY = "malformed"
         THEN Threw(ERR_EVM_WALLET)
         ELSE Returned([privateKey |-> e.EVM_PRIVATE_KEY, address |-> SIGNER_ADDRESS])

loadSolanaWallet(e) ==
    IF e.SOLANA_PRIVATE_KEY = ""
    THEN Threw(ERR_SOL_KEY)
    ELSE IF e.SOLANA_PRIVATE_KEY = "malformed"
         THEN Threw(ERR_SOL_WALLET)
         ELSE Returned([publicKey |-> SOLANA_PUBLIC_KEY])


\* ------------------------------------------------ backend: records, results
NoRequest ==
    [sourceChain |-> Undefined, destinationChain |-> Undefined, receiver |-> Undefined,
     amount |-> Undefined, asset |-> Undefined, feeToken |-> Undefined]

NoTransfer ==
    [id |-> -1, timestamp |-> -1, status |-> Undefined, sourceChain |-> Undefined,
     destinationChain |-> Undefined, amount |-> Undefined, asset |-> Undefined,
     sender |-> Undefined, receiver |-> Undefined, txHash |-> Undefined,
     messageId |-> Undefined, error |-> Undefined]

NoMessage ==
    [receiver |-> toUtf8Bytes(""), data |-> "0x", tokenAmounts |-> <<>>,
     feeToken |-> Undefined, extraArgs |-> NoExtraArgs]

NoResult == [success |-> FALSE, transfer |-> NoTransfer, error |-> Undefined]

\* the request the backend is serving: where it stands (pc), the locals of
\* executeTransfer and of the route function, the HTTP answer, and `log`, the
\* wallet loads and RPC calls made on behalf of this request, in order
BkIdle ==
    [pc |-> "idle", req |-> NoRequest, transferId |-> -1, timestamp |-> -1,
     route |-> Undefined, sender |-> Undefined, selector |-> Undefined,
     message |-> NoMessage, fee |-> -1, value |-> -1, txHash |-> Undefined,
     http |-> 0, result |-> NoResult, log |-> <<>>]

Respond(b, status, result) ==
    [b EXCEPT !.pc = "respond", !.http = status, !.result = result]

\* the catch block of executeTransfer leaving the error out of the result
executeTransferCatch_NoError(err) ==
    [success |-> FALSE, transfer |-> NoTransfer, error |-> Undefined]

\* the catch block of executeTransfer: a failure without a transfer record
executeTransferCatch(err) ==
    [success |-> FALSE, transfer |-> NoTransfer, error |-> err]

\* the catch block of a route function throwing the error on to executeTransfer
routeCatch_Rethrown(transferId, timestamp, request, sourceConfig, destConfig, err) ==
    executeTransferCatch(err)

\* the catch block of a route function.  It looks the two chain names up
\* again; a lookup that throws here leaves the route function and is caught
\* by executeTransfer.
routeCatch(transferId, timestamp, request, sourceConfig, destConfig, err) ==
    IF sourceConfig.threw THEN executeTransferCatch(sourceConfig.error)
    ELSE IF destConfig.threw THEN executeTransferCatch(destConfig.error)
    ELSE [success |-> FALSE,
          transfer |-> [id |-> transferId,
                        timestamp |-> timestamp,
                        status |-> CCIPTransferStatus.FAILED,
                        sourceChain |-> sourceConfig.value.name,
                        destinationChain |-> destConfig.value.name,
                        amount |-> request.amount,
                        asset |-> request.asset,
                        sender |-> "unknown",
                        receiver |-> request.receiver,
                        txHash |-> Undefined,
                        messageId |-> Undefined,
                        error |-> err],
          error |-> err]

\* the success result with the status left at processing
completedResult_StillProcessing(b, sourceName, destName, sender, txHash, messageId) ==
    [success |-> TRUE,
     transfer |-> [id |-> b.transferId,
                   timestamp |-> b.timestamp,
                   status |-> CCIPTransferStatus.PROCESSING,
                   sourceChain |-> sourceName,
                   destinationChain |-> destName,
                   amount |-> b.req.amount,
                   asset |-> b.req.asset,
                   sender |-> sender,
                   receiver |-> b.req.receiver,
                   txHash |-> txHash,
                   messageId |-> messageId,
                   error |-> Undefined],
     error |-> Undefined]

completedResult(b, sourceName, destName, sender, txHash, messageId) ==
    [success |-> TRUE,
     transfer |-> [id |-> b.transferId,
                   timestamp |-> b.timestamp,
                   status |-> CCIPTransferStatus.COMPLETED,
                   sourceChain |-> sourceName,
                   destinationChain |-> destName,
                   amount |-> b.req.amount,
                   asset |-> b.req.asset,
                   sender |-> sender,
                   receiver |-> b.req.receiver,
                   txHash |-> txHash,
                   messageId |-> messageId,
                   error |-> Undefined],
     error |-> Undefined]

\* the two lookups the try block and the catch block of b's route function make
SourceConfigOf(e, b) ==
    IF b.route = "SVM_TO_EVM" THEN getSVMConfig(e, b.req.sourceChain)
                              ELSE getEVMConfig(e, b.req.sourceChain)

DestConfigOf(e, b) ==
    IF b.route = "EVM_TO_SVM" THEN getSVMConfig(e, b.req.destinationChain)
                              ELSE getEVMConfig(e, b.req.destinationChain)

Catch(e, b, err) ==
    Respond(b, 200, routeCatch(b.transferId, b.timestamp, b.req,
                               SourceConfigOf(e, b), DestConfigOf(e, b), err))


\* ------------------------------------------- backend: the route functions
\* executeEVMToEVMTransfer up to its first RPC call (lines 59-88): lookups,
\* wallet, message
executeEVMToEVMTransfer(e, b) ==
    LET sourceConfig == getEVMConfig(e, b.req.sourceChain)
        destConfig   == getEVMConfig(e, b.req.destinationChain)
    IN  IF sourceConfig.threw THEN Catch(e, b, sourceConfig.error)
        ELSE IF destConfig.threw THEN Catch(e, b, destConfig.error)
        ELSE
          LET wallet == loadEVMWallet(e, sourceConfig.value.rpcUrl)
              b1     == [b EXCEPT !.log = Append(@, "loadEVMWallet")]
              amount == parseUnits(b.req.amount, 18)
          IN  IF wallet.threw THEN Catch(e, b1, wallet.error)
              ELSE IF amount.threw THEN Catch(e, b1, amount.error)
              ELSE [b1 EXCEPT
                      !.pc = "getFee",
                      !.sender = wallet.value.address,
                      !.selector = destConfig.value.chainSelector,
                      !.message =
                          [receiver |-> toUtf8Bytes(b.req.receiver),
                           data |-> "0x",
                           tokenAmounts |-> <<[token |-> sourceConfig.value.bnmTokenAddress,
                                               amount |-> amount.value]>>,
                           feeToken |-> getFeeTokenAddress(sourceConfig.value, b.req.feeToken),
                           extraArgs |-> NoExtraArgs]]

\* executeEVMToSVMTransfer up to its first RPC call (lines 159-191).  The
\* selector is destConfig.chainSelector, a field SVM_CONFIGS does not have.
executeEVMToSVMTransfer(e, b) ==
    LET sourceConfig == getEVMConfig(e, b.req.sourceChain)
        destConfig   == getSVMConfig(e, b.req.destinationChain)
    IN  IF sourceConfig.threw THEN Catch(e, b, sourceConfig.error)
        ELSE IF destConfig.threw THEN Catch(e, b, destConfig.error)
        ELSE
          LET wallet == loadEVMWallet(e, sourceConfig.value.rpcUrl)
              b1     == [b EXCEPT !.log = Append(@, "loadEVMWallet")]
              solanaReceiver == encodeSolanaAddressToBytes32(b.req.receiver)
              amount == parseUnits(b.req.amount, 18)
          IN  IF wallet.threw THEN Catch(e, b1, wallet.error)
              ELSE IF solanaReceiver.threw THEN Catch(e, b1, solanaReceiver.error)
              ELSE IF amount.threw THEN Catch(e, b1, amount.error)
              ELSE [b1 EXCEPT
                      !.pc = "getFee",
                      !.sender = wallet.value.address,
                      !.selector = IF "chainSelector" \in DOMAIN destConfig.value
                                   THEN destConfig.value.chainSelector
                                   ELSE Undefined,
                      !.message =
                          [receiver |-> solanaReceiver.value,
                           data |-> "0x",
                           tokenAmounts |-> <<[token |-> sourceConfig.value.bnmTokenAddress,
                                               amount |-> amount.value]>>,
                           feeToken |-> getFeeTokenAddress(sourceConfig.value, b.req.feeToken),
                           extraArgs |-> createSolanaExtraArgs]]

\* executeSVMToEVMTransfer (lines 262-316): after the wallet is loaded the
\* result is made up, with a random txHash and a random messageId
executeSVMToEVMTransfer(e, b, rndHash, rndId) ==
    LET sourceConfig == getSVMConfig(e, b.req.sourceChain)
        destConfig   == getEVMConfig(e, b.req.destinationChain)
    IN  IF sourceConfig.threw THEN Catch(e, b, sourceConfig.error)
        ELSE IF destConfig.threw THEN Catch(e, b, destConfig.error)
        ELSE
          LET wallet == loadSolanaWallet(e)
              b1     == [b EXCEPT !.log = Append(@, "loadSolanaWallet")]
          IN  IF wallet.threw THEN Catch(e, b1, wallet.error)
              ELSE Respond([b1 EXCEPT !.sender = wallet.value.publicKey], 200,
                           completedResult(b1, sourceConfig.value.name, destConfig.value.name,
                                           wallet.value.publicKey, rndHash, rndId))

\* ethers encodes the arguments of a contract call before it reaches the RPC
\* endpoint: an undefined uint64 and a negative uint256 are rejected there
EncodeArgs(selector, message) ==
    IF selector = Undefined THEN Threw("invalid BigNumberish value")
    ELSE IF \E i \in DOMAIN message.tokenAmounts : message.tokenAmounts[i].amount.units < 0
         THEN Threw(ERR_ENCODE_UINT)
         ELSE Returned(<<selector, message>>)

\* `await router.getFee(destConfig.chainSelector, message)`
routerGetFee(e, b, rpcOk, quoted) ==
    LET args == EncodeArgs(b.selector, b.message) IN
    IF args.threw THEN Catch(e, b, args.error)
    ELSE LET b1 == [b EXCEPT !.log = Append(@, "getFee")] IN
         IF rpcOk THEN [b1 EXCEPT !.pc = "ccipSend", !.fee = quoted]
                  ELSE Catch(e, b1, ERR_GET_FEE)

\* routerCcipSend with a rejected send left to be sent again
routerCcipSend_Retry(e, b, rpcOk) ==
    LET b1 == [b EXCEPT !.log = Append(@, "ccipSend"), !.value = b.fee] IN
    IF rpcOk THEN [b1 EXCEPT !.pc = "wait", !.txHash = "tx.hash"]
             ELSE b1

\* `await router.ccipSend(destConfig.chainSelector, message, { value: fee })`
routerCcipSend(e, b, rpcOk) ==
    LET b1 == [b EXCEPT !.log = Append(@, "ccipSend"), !.value = b.fee] IN
    IF rpcOk THEN [b1 EXCEPT !.pc = "wait", !.txHash = "tx.hash"]
             ELSE Catch(e, b1, ERR_CCIP_SEND)

\* txWait with the two chain names of the result exchanged
txWait_NamesExchanged(e, b, rpcOk, rndId) ==
    LET b1 == [b EXCEPT !.log = Append(@, "tx.wait")] IN
    IF rpcOk
    THEN Respond([b1 EXCEPT !.txHash = "receipt.hash"], 200,
                 completedResult(b1, DestConfigOf(e, b).value.name,
                                 SourceConfigOf(e, b).value.name,
                                 b.sender, "receipt.hash", rndId))
    ELSE Catch(e, b1, ERR_TX_WAIT)

\* `await tx.wait(sourceConfig.confirmations)` and the success result; the
\* messageId is random hex, the txHash is the receipt's
txWait(e, b, rpcOk, rndId) ==
    LET b1 == [b EXCEPT !.log = Append(@, "tx.wait")] IN
    IF rpcOk
    THEN Respond([b1 EXCEPT !.txHash = "receipt.hash"], 200,
                 completedResult(b1, SourceConfigOf(e, b).value.name,
                                 DestConfigOf(e, b).value.name,
                                 b.sender, "receipt.hash", rndId))
    ELSE Catch(e, b1, ERR_TX_WAIT)

\* executeTransfer (lines 17-45): the id, the classification, the dispatch
executeTransfer(e, t, request, rndHash, rndId) ==
    LET b == [BkIdle EXCEPT !.req = request, !.transferId = t, !.timestamp = t] IN
    IF isEVMChain(request.sourceChain) /\ isEVMChain(request.destinationChain)
    THEN executeEVMToEVMTransfer(e, [b EXCEPT !.route = "EVM_TO_EVM"])
    ELSE IF isEVMChain(request.sourceChain) /\ isSVMChain(request.destinationChain)
    THEN executeEVMToSVMTransfer(e, [b EXCEPT !.route = "EVM_TO_SVM"])
    ELSE IF isSVMChain(request.sourceChain) /\ isEVMChain(request.destinationChain)
    THEN executeSVMToEVMTransfer(e, [b EXCEPT !.route = "SVM_TO_EVM"], rndHash, rndId)
    ELSE Respond([b EXCEPT !.route = "UNSUPPORTED"], 200, executeTransferCatch(ERR_COMBINATION))

\* transferValidation (routes/transfer.ts): five non-empty strings, feeToken
\* optional
transferValidation(body) ==
    /\ body.sourceChain \notin {Undefined, ""}
    /\ body.destinationChain \notin {Undefined, ""}
    /\ body.receiver \notin {Undefined, ""}
    /\ body.amount \notin {Undefined, ""}
    /\ body.asset \notin {Undefined, ""}

\* router.post('/'): 400 with the validation errors, else executeTransfer
postTransfer(e, t, body, rndHash, rndId) ==
    IF ~transferValidation(body)
    THEN Respond([BkIdle EXCEPT !.req = body], 400, NoResult)
    ELSE executeTransfer(e, t, body, rndHash, rndId)


\* ------------------------------------------------------------- the inputs
RPC_URL == "https://rpc.example"

\* process.env: every RPC URL set, or ETHEREUM_SEPOLIA_RPC_URL unset; each
\* private key unset, malformed or usable
Envs ==
    [rpcUrl : {[c \in EVMChainIds |-> RPC_URL],
               [c \in EVMChainIds |-> IF c = ETHEREUM_SEPOLIA THEN "" ELSE RPC_URL]},
     solanaRpcUrl : {""},
     EVM_PRIVATE_KEY : {"", "malformed", "0xprivatekey"},
     SOLANA_PRIVATE_KEY : {"", "malformed", "1,2,3"}]

GoodEnv ==
    [rpcUrl |-> [c \in EVMChainIds |-> RPC_URL], solanaRpcUrl |-> "",
     EVM_PRIVATE_KEY |-> "0xprivatekey", SOLANA_PRIVATE_KEY |-> "1,2,3"]

\* request bodies posted to the backend
BkRequests ==
    [sourceChain : {ETHEREUM_SEPOLIA, SOLANA_DEVNET, UNLISTED_CHAIN},
     destinationChain : {BASE_SEPOLIA, SOLANA_DEVNET, UNLISTED_CHAIN},
     receiver : {EVM_RECEIVER, SOL_RECEIVER, BAD_RECEIVER, ""},
     amount : {"10", "0", "-1", "abc", ""},
     asset : {"BnM", "USDC"},
     feeToken : {Undefined, FeeTokenType.NATIVE, FeeTokenType.LINK}]

\* the hex strings Math.random() may produce, and the fees a quote may return
RandomHex == {"0xrandom1", "0xrandom2"}
Fees == {1, 2}

\* an RPC call can only succeed against an endpoint that is configured
RpcOutcomes(e, b) ==
    IF SourceConfigOf(e, b).value.rpcUrl = "" THEN {FALSE} ELSE BOOLEAN

\* ------------------------------------------------------- backend actions
Tick ==
    /\ now < MaxClock
    /\ now' = now + 1
    /\ UNCHANGED <<inv, env, bk, transfers, storage, calls, fn>>

BkPost ==
    /\ bk.pc = "idle"
    /\ \E body \in BkRequests, rndHash \in RandomHex, rndId \in RandomHex :
           bk' = postTransfer(env, now, body, rndHash, rndId)
    /\ UNCHANGED <<inv, env, now, transfers, storage, calls, fn>>

BkGetFee ==
    /\ bk.pc = "getFee"
    /\ \E rpcOk \in RpcOutcomes(env, bk), quoted \in Fees :
           bk' = routerGetFee(env, bk, rpcOk, quoted)
    /\ UNCHANGED <<inv, env, now, transfers, storage, calls, fn>>

BkCcipSend ==
    /\ bk.pc = "ccipSend"
    /\ \E rpcOk \in RpcOutcomes(env, bk) :
           bk' = routerCcipSend(env, bk, rpcOk)
    /\ UNCHANGED <<inv, env, now, transfers, storage, calls, fn>>

BkWait ==
    /\ bk.pc = "wait"
    /\ \E rpcOk \in RpcOutcomes(env, bk), rndId \in RandomHex :
           bk' = txWait(env, bk, rpcOk, rndId)
    /\ UNCHANGED <<inv, env, now, transfers, storage, calls, fn>>

\* res.status(..).json(..): the request is answered, the handler is free
BkRespond ==
    /\ bk.pc = "respond"
    /\ bk' = BkIdle
    /\ UNCHANGED <<inv, env, now, transfers, storage, calls, fn>>

\* no function applied
NoFn == [op |-> "none"]

\* no InvestmentTransaction (getTransactionById finding none)
NoTransaction ==
    [id |-> -1, timestamp |-> -1, status |-> Undefined, sourceChain |-> Undefined,
     destinationChain |-> Undefined, amount |-> Undefined, asset |-> Undefined,
     txHash |-> Undefined, messageId |-> Undefined, error |-> Undefined]

\* no executeInvestment call
NoExecution ==
    [pc |-> "idle", intent |-> Undefined, id |-> -1, idx |-> 0,
     result |-> [success |-> FALSE, transaction |-> NoTransaction, error |-> Undefined]]

NoCall ==
    [pc |-> "idle", req |-> NoRequest, id |-> -1, idx |-> 0,
     hit |-> 0, http |-> 0, result |-> NoResult]

BackendInit ==
    /\ env \in Envs
    /\ now = 0
    /\ bk = BkIdle
    /\ transfers = <<>>
    /\ storage = <<>>
    /\ calls = [c \in 1..MaxCalls |-> NoCall]
    /\ fn = NoFn
    /\ transactions = << >>
    /\ investment_transactions = << >>
    /\ executions = [c \in 1..MaxCalls |-> NoExecution]

BackendNext == Tick \/ BkPost \/ BkGetFee \/ BkCcipSend \/ BkWait \/ BkRespond

BackendSpec == BackendInit /\ [][BackendNext]_vars


\* ------------------------------------------------- frontend: CCIPService
WALLET_ADDRESS == "0xConnectedWalletAddress"

\* the requests the user interface submits
FeRequests ==
    {[sourceChain |-> ETHEREUM_SEPOLIA, destinationChain |-> BASE_SEPOLIA,
      receiver |-> EVM_RECEIVER, amount |-> "10", asset |-> "BnM", feeToken |-> Undefined],
     [sourceChain |-> ETHEREUM_SEPOLIA, destinationChain |-> BASE_SEPOLIA,
      receiver |-> EVM_RECEIVER, amount |-> "", asset |-> "BnM", feeToken |-> Undefined],
     [sourceChain |-> SOLANA_DEVNET, destinationChain |-> SOLANA_DEVNET,
      receiver |-> SOL_RECEIVER, amount |-> "10", asset |-> "BnM", feeToken |-> Undefined],
     [sourceChain |-> SOLANA_DEVNET, destinationChain |-> ETHEREUM_SEPOLIA,
      receiver |-> EVM_RECEIVER, amount |-> "10", asset |-> "USDC",
      feeToken |-> FeeTokenType.LINK]}

\* what the RPC endpoint does to the three calls of one backend request
RpcScripts ==
    {[getFee |-> TRUE,  ccipSend |-> TRUE,  wait |-> TRUE],
     [getFee |-> TRUE,  ccipSend |-> FALSE, wait |-> TRUE]}

\* the backend serving one posted body to its answer: the route handler and
\* then every step the request is due, under the script o
Serve(e, t, body, o, quoted, rndHash, rndId) ==
    LET b0 == postTransfer(e, t, body, rndHash, rndId)
        b1 == IF b0.pc = "getFee"
              THEN routerGetFee(e, b0, o.getFee /\ TRUE \in RpcOutcomes(e, b0), quoted)
              ELSE b0
        b2 == IF b1.pc = "ccipSend"
              THEN routerCcipSend(e, b1, o.ccipSend /\ TRUE \in RpcOutcomes(e, b1))
              ELSE b1
        b3 == IF b2.pc = "wait"
              THEN txWait(e, b2, o.wait /\ TRUE \in RpcOutcomes(e, b2), rndId)
              ELSE b2
    IN  b3

\* getChainName: the descriptor's name, the id itself when the lookup throws
getChainName(chainId) ==
    IF chainId = SOLANA_DEVNET THEN "Solana Devnet"
    ELSE IF chainId \in EVMChainIds THEN EvmName(chainId)
    ELSE chainId

\* this.transfers.find(tx => tx.id === transferId): the first match, 0 if none
FindIndex(ts, transferId) ==
    IF \E i \in DOMAIN ts : ts[i].id = transferId
    THEN CHOOSE i \in DOMAIN ts :
            /\ ts[i].id = transferId
            /\ \A j \in DOMAIN ts : ts[j].id = transferId => i <= j
    ELSE 0

getTransferById(ts, transferId) ==
    IF FindIndex(ts, transferId) = 0 THEN NoTransfer ELSE ts[FindIndex(ts, transferId)]

\* Object.assign(target, updates)
ObjectAssign(target, updates) ==
    [f \in DOMAIN target \cup DOMAIN updates |->
        IF f \in DOMAIN updates THEN updates[f] ELSE target[f]]

\* updateTransferStatus replacing the record instead of merging into it
updateTransferStatus_Replace(ts, transferId, status, updates) ==
    LET i == FindIndex(ts, transferId) IN
    IF i = 0 THEN ts
    ELSE [ts EXCEPT ![i] = ObjectAssign([NoTransfer EXCEPT !.id = transferId,
                                                           !.status = status], updates)]

\* updateTransferStatus: the store after the call
updateTransferStatus(ts, transferId, status, updates) ==
    LET i == FindIndex(ts, transferId) IN
    IF i = 0 THEN ts
    ELSE [ts EXCEPT ![i] = ObjectAssign([ts[i] EXCEPT !.status = status], updates)]

\* JSON.stringify(this.transfers): a Date becomes its ISO string
Stringify(ts) ==
    [i \in DOMAIN ts |-> [ts[i] EXCEPT !.timestamp = <<"ISO", ts[i].timestamp>>]]

\* saveTransfersToStorage runs inside updateTransferStatus only when a record
\* was found
SavedAfterUpdate(ts, transferId, st) ==
    IF FindIndex(ts, transferId) = 0
    THEN st
    ELSE Stringify(ts)

\* lines 106-113: the body posted; an absent feeToken is sent as native
PostedBody(request) ==
    [request EXCEPT !.feeToken = IF request.feeToken \in {Undefined, ""}
                                 THEN FeeTokenType.NATIVE ELSE request.feeToken]

\* lines 84-114: the record is created in `processing`, pushed and saved,
\* then the body is posted
FeStart(c) ==
    /\ calls[c].pc = "idle"
    /\ \A d \in 1..(c - 1) : calls[d].pc # "idle"
    /\ \E request \in FeRequests :
         LET transfer == [id |-> now,
                          timestamp |-> now,
                          status |-> CCIPTransferStatus.PROCESSING,
                          sourceChain |-> getChainName(request.sourceChain),
                          destinationChain |-> getChainName(request.destinationChain),
                          amount |-> request.amount,
                          asset |-> request.asset,
                          sender |-> WALLET_ADDRESS,
                          receiver |-> request.receiver,
                          txHash |-> Undefined,
                          messageId |-> Undefined,
                          error |-> Undefined]
         IN  /\ transfers' = Append(transfers, transfer)
             /\ storage' = Stringify(transfers')
             /\ calls' = [calls EXCEPT ![c] =
                            [NoCall EXCEPT !.pc = "fetching", !.req = request,
                                           !.id = now,
                                           !.idx = Len(transfers) + 1]]
    /\ UNCHANGED <<inv, env, now, bk, fn>>

\* lines 147-161: the catch block.  It looks for a record whose id is made
\* from the clock as it reads now, not for the id of the record it created.
FeCatch(c, message, status) ==
    LET hit == FindIndex(transfers, now) IN
    /\ transfers' = updateTransferStatus(transfers, now, CCIPTransferStatus.FAILED,
                                         [error |-> message])
    /\ storage' = SavedAfterUpdate(transfers', now, storage)
    /\ calls' = [calls EXCEPT ![c] =
                   [@ EXCEPT !.pc = "returned", !.hit = hit, !.http = status,
                             !.result = [success |-> FALSE, transfer |-> NoTransfer,
                                          error |-> message]]]

\* fetch rejects: the backend is unreachable
FeFetchRejected(c) ==
    /\ calls[c].pc = "fetching"
    /\ FeCatch(c, "Failed to fetch", 0)
    /\ UNCHANGED <<inv, env, now, bk, fn>>

\* the answers the backend can give to a posted body: one for every RPC
\* script and quoted fee (the store keeps the random hex it is handed, so one
\* draw stands for all)
Answers(e, t, body) ==
    {[http |-> b.http, result |-> b.result] :
        b \in {Serve(e, t, body, o, quoted, rndHash, rndId) :
                  o \in RpcScripts, quoted \in Fees,
                  rndHash \in {"0xrandom1"}, rndId \in {"0xrandom2"}}}

\* lines 123-146: the two branches on the parsed answer
FeResult(c, result) ==
    LET id == calls[c].id
        ok == result.success /\ result.transfer # NoTransfer
        ts == IF ok
              THEN updateTransferStatus(transfers, id, result.transfer.status,
                       [txHash |-> result.transfer.txHash,
                        messageId |-> result.transfer.messageId])
              ELSE updateTransferStatus(transfers, id, CCIPTransferStatus.FAILED,
                       [error |-> IF result.error # Undefined THEN result.error
                                  ELSE "Unknown error"])
    IN  /\ transfers' = ts
        /\ storage' = SavedAfterUpdate(ts, id, storage)
        /\ calls' = [calls EXCEPT ![c] =
                       [@ EXCEPT !.pc = "returned", !.http = 200,
                                 !.hit = FindIndex(transfers, id),
                                 !.result =
                                     [success |-> ok,
                                      transfer |-> getTransferById(ts, id),
                                      error |-> IF ok THEN Undefined
                                                ELSE IF result.error # Undefined
                                                     THEN result.error
                                                     ELSE "Failed to execute transfer"]]]

\* lines 116-146: the backend answers
FeFetchResponded(c) ==
    /\ calls[c].pc = "fetching"
    /\ \E a \in Answers(env, now, PostedBody(calls[c].req)) :
         IF a.http # 200
         THEN FeCatch(c, IF a.result.error # Undefined THEN a.result.error
                         ELSE "Failed to execute transfer", a.http)
         ELSE FeResult(c, a.result)
    /\ UNCHANGED <<inv, env, now, bk, fn>>

Init ==
    /\ env = GoodEnv
    /\ now = 0
    /\ bk = BkIdle
    /\ transfers = <<>>
    /\ storage = <<>>
    /\ calls = [c \in 1..MaxCalls |-> NoCall]
    /\ fn = NoFn
    /\ transactions = << >>
    /\ investment_transactions = << >>
    /\ executions = [c \in 1..MaxCalls |-> NoExecution]

Next ==
    \/ Tick
    \/ \E c \in 1..MaxCalls : FeStart(c)
    \/ \E c \in 1..MaxCalls : FeFetchRejected(c)
    \/ \E c \in 1..MaxCalls : FeFetchResponded(c)

Spec == Init /\ [][Next]_vars

\* ------------------------------------------- the resolvers and the registry
\* the fee-token selections a caller may pass: absent, the enum values, the
\* enum values in another case, a token address, a Solana key, garbage
FeeSelections ==
    {Undefined, "", FeeTokenType.NATIVE, FeeTokenType.WRAPPED_NATIVE,
     FeeTokenType.LINK, "NATIVE", "Link", CUSTOM_TOKEN, SOL_RECEIVER, BAD_RECEIVER}

\* the chain identifiers a caller may pass
ChainIds == EVMChainIds \cup {SOLANA_DEVNET, UNLISTED_CHAIN}

\* getFeeTokenAddress(sourceConfig, request.feeToken) of the backend
FnGetFeeTokenAddress ==
    /\ fn.op = "none"
    /\ \E c \in EVMChainIds, feeTokenType \in FeeSelections :
         LET config == EVM_CONFIGS(env)[c] IN
         fn' = [op |-> "getFeeTokenAddress", args |-> <<config, feeTokenType>>,
                out |-> Returned(getFeeTokenAddress(config, feeTokenType))]
    /\ UNCHANGED <<inv, env, now, bk, transfers, storage, calls>>

\* getEVMFeeTokenAddress of the frontend; its EVM descriptors hold the
\* addresses of the backend's
FnGetEVMFeeTokenAddress ==
    /\ fn.op = "none"
    /\ \E c \in EVMChainIds, feeTokenType \in FeeSelections :
         LET config == EVM_CONFIGS(env)[c] IN
         fn' = [op |-> "getEVMFeeTokenAddress", args |-> <<config, feeTokenType>>,
                out |-> Returned(getEVMFeeTokenAddress(config, feeTokenType))]
    /\ UNCHANGED <<inv, env, now, bk, transfers, storage, calls>>

\* getSVMFeeToken of the frontend
FnGetSVMFeeToken ==
    /\ fn.op = "none"
    /\ \E feeTokenType \in FeeSelections :
         LET config == SVM_CONFIGS_Frontend[SOLANA_DEVNET] IN
         fn' = [op |-> "getSVMFeeToken", args |-> <<config, feeTokenType>>,
                out |-> getSVMFeeToken(config, feeTokenType)]
    /\ UNCHANGED <<inv, env, now, bk, transfers, storage, calls>>

\* the fee token of a request that goes through the frontend: the body the
\* frontend posts, then the backend's resolver on the posted selection
FnPostedFeeToken ==
    /\ fn.op = "none"
    /\ \E request \in FeRequests, feeTokenType \in FeeSelections :
         /\ request.sourceChain \in EVMChainIds
         /\ LET config == EVM_CONFIGS(env)[request.sourceChain]
                posted == PostedBody([request EXCEPT !.feeToken = feeTokenType])
            IN  fn' = [op |-> "executeTransfer", args |-> <<config, feeTokenType>>,
                       out |-> Returned(getFeeTokenAddress(config, posted.feeToken))]
    /\ UNCHANGED <<inv, env, now, bk, transfers, storage, calls>>

FnGetEVMConfig ==
    /\ fn.op = "none"
    /\ \E chainId \in ChainIds :
         fn' = [op |-> "getEVMConfig", args |-> <<chainId>>,
                out |-> getEVMConfig(env, chainId)]
    /\ UNCHANGED <<inv, env, now, bk, transfers, storage, calls>>

FnGetSVMConfig ==
    /\ fn.op = "none"
    /\ \E chainId \in ChainIds :
         fn' = [op |-> "getSVMConfig", args |-> <<chainId>>,
                out |-> getSVMConfig(env, chainId)]
    /\ UNCHANGED <<inv, env, now, bk, transfers, storage, calls>>

ResolverInit ==
    /\ env \in Envs
    /\ now = 0
    /\ bk = BkIdle
    /\ transfers = << >>
    /\ storage = << >>
    /\ calls = [c \in 1..MaxCalls |-> NoCall]
    /\ fn = NoFn
    /\ transactions = << >>
    /\ investment_transactions = << >>
    /\ executions = [c \in 1..MaxCalls |-> NoExecution]

ResolverNext ==
    \/ FnGetFeeTokenAddress
    \/ FnGetEVMFeeTokenAddress
    \/ FnGetSVMFeeToken
    \/ FnPostedFeeToken
    \/ FnGetEVMConfig
    \/ FnGetSVMConfig

ResolverSpec == ResolverInit /\ [][ResolverNext]_vars

\* ---------------------------------------------------- the transfer store
MaxStore == 3

\* the comparator of getTransferHistory, with an ascending order
compareFn_Ascending(a, b) == a.timestamp - b.timestamp

\* (a, b) => b.timestamp.getTime() - a.timestamp.getTime()
compareFn(a, b) == b.timestamp - a.timestamp

\* one step of the sort: r goes behind every element it does not precede
Insert(sorted, r) ==
    LET k == Cardinality({i \in DOMAIN sorted : compareFn(sorted[i], r) <= 0}) IN
    SubSeq(sorted, 1, k) \o <<r>> \o SubSeq(sorted, k + 1, Len(sorted))

\* Array.prototype.sort(compareFn): stable, the array sorted is the receiver
RECURSIVE ArraySort(_)
ArraySort(arr) ==
    IF arr = << >> THEN << >>
    ELSE Insert(ArraySort(SubSeq(arr, 1, Len(arr) - 1)), arr[Len(arr)])

\* getTransferHistory: the sorted array is the copy [...this.transfers]
getTransferHistory(ts) == [value |-> ArraySort(ts), transfers |-> ts]

\* the records a store may hold: the id is read from the clock before the
\* timestamp is, and two records may carry one id
StoreRecords ==
    {r \in {[id |-> i, timestamp |-> t, status |-> CCIPTransferStatus.PROCESSING,
      sourceChain |-> "Ethereum Sepolia", destinationChain |-> "Base Sepolia",
      amount |-> "10", asset |-> "BnM", sender |-> WALLET_ADDRESS,
      receiver |-> EVM_RECEIVER, txHash |-> Undefined, messageId |-> Undefined,
      error |-> Undefined] : i \in 1..2, t \in 1..MaxStore} :
        r.id <= r.timestamp}


Stores == UNION {[1..n -> StoreRecords] : n \in 0..MaxStore}

\* the `updates` arguments: the default {}, the failure's, the success's
Updates ==
    {[f \in {} |-> Undefined],
     [error |-> "Unknown error"],
     [txHash |-> "receipt.hash", messageId |-> "0xrandom1"]}

FnGetTransferHistory ==
    /\ fn.op = "none"
    /\ LET r == getTransferHistory(transfers) IN
       /\ fn' = [op |-> "getTransferHistory", args |-> <<transfers>>,
                 out |-> Returned(r.value)]
       /\ transfers' = r.transfers
    /\ UNCHANGED <<inv, env, now, bk, storage, calls>>

FnUpdateTransferStatus ==
    /\ fn.op = "none"
    /\ \E transferId \in 1..(MaxStore + 1), updates \in Updates,
          status \in {CCIPTransferStatus.COMPLETED, CCIPTransferStatus.FAILED} :
         /\ transfers' = updateTransferStatus(transfers, transferId, status, updates)
         /\ storage' = SavedAfterUpdate(transfers', transferId, storage)
         /\ fn' = [op |-> "updateTransferStatus",
                   args |-> <<transfers, transferId, status, updates>>,
                   out |-> Returned(Undefined)]
    /\ UNCHANGED <<inv, env, now, bk, calls>>

StoreInit ==
    /\ env = GoodEnv
    /\ now = 0
    /\ bk = BkIdle
    /\ transfers \in Stores
    /\ storage = Stringify(transfers)
    /\ calls = [c \in 1..MaxCalls |-> NoCall]
    /\ fn = NoFn
    /\ transactions = << >>
    /\ investment_transactions = << >>
    /\ executions = [c \in 1..MaxCalls |-> NoExecution]

StoreNext ==
    \/ FnGetTransferHistory
    \/ FnUpdateTransferStatus

StoreSpec == StoreInit /\ [][StoreNext]_vars


\* ------------------------------------------------- the InvestmentService
InvestmentExecutionStatus ==
    [PENDING |-> "pending", PROCESSING |-> "processing",
     COMPLETED |-> "completed", FAILED |-> "failed"]

\* an optional number field left out (entities.amount?: number)
NoNumber == -1

\* the intents the chat service may hand over: the three the switch knows
\* and one it does not, with an amount, with a percentage only, with nothing
InvestmentRequests ==
    {[intent |-> [intent |-> "invest",
                  entities |-> [amount |-> 100, percentage |-> NoNumber,
                                chain |-> "Solana", asset_type |-> "SOL"]],
      sourceChain |-> "Ethereum"],
     [intent |-> [intent |-> "rebalance",
                  entities |-> [amount |-> 0, percentage |-> 50,
                                chain |-> Undefined, asset_type |-> Undefined]],
      sourceChain |-> "Ethereum"],
     [intent |-> [intent |-> "withdraw",
                  entities |-> [amount |-> NoNumber, percentage |-> NoNumber,
                                chain |-> Undefined, asset_type |-> Undefined]],
      sourceChain |-> "Ethereum"],
     [intent |-> [intent |-> "query",
                  entities |-> [amount |-> 100, percentage |-> NoNumber,
                                chain |-> Undefined, asset_type |-> Undefined]],
      sourceChain |-> "Ethereum"]}

\* Number.prototype.toString on the numbers the requests carry
NumberToString(n) ==
    CASE n = 100 -> "100"
      [] n = 50  -> "50"
      [] n = 0   -> "0"

\* a number that `if (x)` takes for false, a string that `x || y` takes for false
FalsyNumber(x) == x \in {NoNumber, 0}
FalsyString(x) == x \in {Undefined, ""}

mapChainFromIntent(intent) ==
    IF FalsyString(intent.entities.chain) THEN "Ethereum" ELSE intent.entities.chain

getAmountFromIntent(intent) ==
    IF ~FalsyNumber(intent.entities.amount)
    THEN NumberToString(intent.entities.amount)
    ELSE IF ~FalsyNumber(intent.entities.percentage)
         THEN NumberToString(intent.entities.percentage) \o "%"
         ELSE "0"

getAssetFromIntent(intent) ==
    IF FalsyString(intent.entities.asset_type) THEN "USDC" ELSE intent.entities.asset_type

\* this.transactions.find(tx => tx.id === transactionId)
getTransactionById(txs, transactionId) ==
    IF FindIndex(txs, transactionId) = 0 THEN NoTransaction
    ELSE txs[FindIndex(txs, transactionId)]

\* updateTransactionStatus: the list after the call
updateTransactionStatus(txs, transactionId, status, updates) ==
    LET i == FindIndex(txs, transactionId) IN
    IF i = 0 THEN txs
    ELSE [txs EXCEPT ![i] = ObjectAssign([txs[i] EXCEPT !.status = status], updates)]

\* executeInvestment up to its first await (lines 59-87): the record is
\* pushed and saved in `processing`; an intent the switch does not know
\* throws into the catch block of lines 88-94, which returns at once
InvStart(c) ==
    /\ executions[c].pc = "idle"
    /\ \A d \in 1..(c - 1) : executions[d].pc # "idle"
    /\ \E request \in InvestmentRequests :
         LET transaction ==
                 [id |-> now,
                  timestamp |-> now,
                  status |-> InvestmentExecutionStatus.PROCESSING,
                  sourceChain |-> request.sourceChain,
                  destinationChain |-> mapChainFromIntent(request.intent),
                  amount |-> getAmountFromIntent(request.intent),
                  asset |-> getAssetFromIntent(request.intent),
                  txHash |-> Undefined,
                  messageId |-> Undefined,
                  error |-> Undefined]
             known == request.intent.intent \in {"invest", "rebalance", "withdraw"}
         IN  /\ transactions' = Append(transactions, transaction)
             /\ investment_transactions' = Stringify(transactions')
             /\ executions' = [executions EXCEPT ![c] =
                   [pc |-> IF known THEN "waiting" ELSE "returned",
                    intent |-> request.intent.intent,
                    id |-> now,
                    idx |-> Len(transactions) + 1,
                    result |-> [success |-> FALSE,
                                transaction |-> NoTransaction,
                                error |-> IF known THEN Undefined
                                          ELSE "Unsupported investment intent"]]]
    /\ UNCHANGED <<env, now, bk, transfers, storage, calls, fn>>

\* the 2000 ms timer fires, which takes the clock past the value the id was
\* built from (lines 217-234, 277-291): mock hashes, the first record with
\* the call's id is set to completed, the call returns it
InvTimeout(c) ==
    /\ executions[c].pc = "waiting"
    /\ now > executions[c].id
    /\ \E mockTxHash \in RandomHex, mockMessageId \in RandomHex :
         LET id == executions[c].id
             updates == IF executions[c].intent = "withdraw"
                        THEN [txHash |-> mockTxHash]
                        ELSE [txHash |-> mockTxHash, messageId |-> mockMessageId]
             txs == updateTransactionStatus(transactions, id,
                        InvestmentExecutionStatus.COMPLETED, updates)
         IN  /\ transactions' = txs
             /\ investment_transactions' = Stringify(txs)
             /\ executions' = [executions EXCEPT ![c] =
                   [@ EXCEPT !.pc = "returned",
                             !.result = [success |-> TRUE,
                                         transaction |-> getTransactionById(txs, id),
                                         error |-> Undefined]]]
    /\ UNCHANGED <<env, now, bk, transfers, storage, calls, fn>>

InvestmentInit ==
    /\ env = GoodEnv
    /\ now = 0
    /\ bk = BkIdle
    /\ transfers = << >>
    /\ storage = << >>
    /\ calls = [c \in 1..MaxCalls |-> NoCall]
    /\ fn = NoFn
    /\ transactions = << >>
    /\ investment_transactions = << >>
    /\ executions = [c \in 1..MaxCalls |-> NoExecution]

InvestmentNext ==
    \/ Tick
    \/ \E c \in 1..MaxCalls : InvStart(c)
    \/ \E c \in 1..MaxCalls : InvTimeout(c)

InvestmentSpec == InvestmentInit /\ [][InvestmentNext]_vars


\* ================================================================ claims
Terminal == {CCIPTransferStatus.COMPLETED, CCIPTransferStatus.FAILED}

\* the backend has answered a request that reached executeTransfer
BkAnswered == bk.pc = "respond" /\ bk.http = 200

ConfiguredChains == EVMChainIds \cup {SOLANA_DEVNET}

SignerErrors == {ERR_EVM_KEY, ERR_EVM_WALLET, ERR_SOL_KEY, ERR_SOL_WALLET}

\* C1: every result of the backend executeTransfer carries a transfer record
\* and the record's status is completed or failed.
C1_AlwaysTerminalRecord ==
    BkAnswered =>
        /\ bk.result.transfer # NoTransfer
        /\ bk.result.transfer.status \in Terminal

\* C2: when a frontend executeTransfer call has returned, the record it
\* pushed into the store is completed or failed.
C2_ReturnedCallRecordTerminal ==
    \A c \in 1..MaxCalls :
        calls[c].pc = "returned" => transfers[calls[c].idx].status \in Terminal

\* C3: a record of the store that is completed or failed is never set back
\* to processing by a later step.
C3_TerminalIsFinal ==
    [][\A i \in DOMAIN transfers :
          transfers[i].status \in Terminal =>
              transfers'[i].status # CCIPTransferStatus.PROCESSING]_vars

\* C3 witness: a record that two calls have updated, so a record that was
\* already terminal has been written again
C3_Witness ==
    \E c \in 1..MaxCalls, d \in 1..MaxCalls :
        /\ c # d
        /\ calls[c].pc = "returned" /\ calls[d].pc = "returned"
        /\ calls[c].hit # 0 /\ calls[c].hit = calls[d].hit
        /\ transfers[calls[c].hit].status \in Terminal

\* C4: for account-model to account-model the call fails with the
\* unsupported-route error and the call's transfer record becomes failed with
\* that reason.
C4_UnsupportedRouteFailsRecord ==
    \A c \in 1..MaxCalls :
        ( /\ calls[c].pc = "returned"
          /\ calls[c].http = 200
          /\ isSVMChain(calls[c].req.sourceChain)
          /\ isSVMChain(calls[c].req.destinationChain) )
        => /\ ~calls[c].result.success
           /\ calls[c].result.error = ERR_COMBINATION
           /\ transfers[calls[c].idx].status = CCIPTransferStatus.FAILED
           /\ transfers[calls[c].idx].error = ERR_COMBINATION

\* C5: every failure of the backend executeTransfer (classification, lookup,
\* signer, receiver, quote, send, confirmation) is returned as a failed
\* record carrying the error message.
C5_FailureBecomesFailedRecord ==
    (BkAnswered /\ ~bk.result.success) =>
        /\ bk.result.transfer.status = CCIPTransferStatus.FAILED
        /\ bk.result.transfer.error = bk.result.error

\* C6: a request the route's validation rejects with HTTP 400 has no record
\* in the transfer store.
C6_RejectedRequestHasNoRecord ==
    \A c \in 1..MaxCalls :
        (calls[c].pc = "returned" /\ calls[c].http = 400)
        => \A i \in DOMAIN transfers : i # calls[c].idx

PositiveAmount(s) == ~DecimalValue(s).threw /\ DecimalValue(s).value > 0

\* C7: for an amount that is not a positive number there is no fee quote, no
\* send and no transfer record.
C7_NonPositiveAmountRejected ==
    (bk.pc # "idle" /\ ~PositiveAmount(bk.req.amount)) =>
        /\ \A i \in DOMAIN bk.log : bk.log[i] \notin {"getFee", "ccipSend"}
        /\ bk.result.transfer = NoTransfer

C9_UnsetRpcIsUnknownChain ==
    ( /\ bk.pc # "idle" /\ bk.http # 400
      /\ bk.req.sourceChain \in EVMChainIds
      /\ env.rpcUrl[bk.req.sourceChain] = "" ) =>
        /\ bk.log = <<>>
        /\ bk.pc = "respond"
        /\ bk.result.error = ERR_EVM_CHAIN

InvalidSolanaReceiver ==
    /\ bk.pc # "idle" /\ bk.http # 400
    /\ isSVMChain(bk.req.destinationChain)
    /\ PublicKey(bk.req.receiver).threw

\* C10: for an account-model destination and a receiver that does not parse,
\* executeTransfer yields a failed record with the invalid-receiver error and
\* makes neither the fee quote nor the send call.
C10_InvalidReceiverFailedRecord ==
    InvalidSolanaReceiver =>
        /\ \A i \in DOMAIN bk.log : bk.log[i] \notin {"getFee", "ccipSend"}
        /\ bk.pc = "respond"
        /\ bk.result.transfer.status = CCIPTransferStatus.FAILED
        /\ bk.result.transfer.error = ERR_SOL_ADDRESS

\* C10 as amended: no fee quote and no send is made and the call does not
\* succeed; the failed record with the invalid-receiver error is returned
\* when the source is a configured EVM chain and its signer loads.
C10_Amended ==
    InvalidSolanaReceiver =>
        /\ \A i \in DOMAIN bk.log : bk.log[i] \notin {"getFee", "ccipSend"}
        /\ bk.pc = "respond"
        /\ ~bk.result.success
        /\ ( /\ bk.req.sourceChain \in EVMChainIds
             /\ ~loadEVMWallet(env, EVM_CONFIGS(env)[bk.req.sourceChain].rpcUrl).threw )
           => /\ bk.result.transfer.status = CCIPTransferStatus.FAILED
              /\ bk.result.transfer.error = ERR_SOL_ADDRESS
              /\ bk.result.error = ERR_SOL_ADDRESS

C10_Witness ==
    /\ BkAnswered
    /\ bk.req.sourceChain = ETHEREUM_SEPOLIA
    /\ bk.req.destinationChain = SOLANA_DEVNET
    /\ bk.req.receiver = BAD_RECEIVER
    /\ bk.log = <<"loadEVMWallet">>
    /\ bk.result.transfer.error = ERR_SOL_ADDRESS

\* the three fee-token resolvers, and whether a resolver is for Solana
ResolverOps == {"getFeeTokenAddress", "getEVMFeeTokenAddress", "getSVMFeeToken"}

\* a concrete token reference of the resolver's family
ConcreteReference(op, ref) ==
    IF op = "getSVMFeeToken" THEN Base58Length(ref) = 32 ELSE isAddress(ref)

\* C11: fee-token resolution never fails: for every chain descriptor and
\* every selection (absent, an enum value, any string including garbage) each
\* resolver returns a concrete token reference and does not throw.
C11_ResolutionNeverFails ==
    fn.op \in ResolverOps =>
        /\ ~fn.out.threw
        /\ ConcreteReference(fn.op, fn.out.value)

\* a garbage selection has been resolved for the Solana descriptor
C11_Witness ==
    /\ fn.op = "getSVMFeeToken"
    /\ fn.args[2] = BAD_RECEIVER
    /\ fn.out = Returned(PublicKey_default)

\* the descriptor's LINK reference, and the family's native sentinel
LinkReference(op, config) ==
    IF op = "getSVMFeeToken" THEN config.linkTokenMint ELSE config.linkTokenAddress

NativeSentinel(op) ==
    IF op = "getSVMFeeToken" THEN PublicKey_default ELSE ZeroAddress

\* C12: when no selection is given the fee token resolved is the
\* descriptor's LINK reference, for EVM and Solana descriptors alike and for
\* a request that the frontend's executeTransfer submits without a feeToken.
C12_AbsentSelectionIsLink ==
    (fn.op \in ResolverOps \cup {"executeTransfer"} /\ fn.args[2] = Undefined) =>
        fn.out = Returned(LinkReference(fn.op, fn.args[1]))

\* C12, amended: with no selection the two EVM resolvers give the
\* descriptor's LINK reference; getSVMFeeToken gives the native sentinel
\* PublicKey.default; a request submitted through the frontend without a
\* feeToken is posted as `native` and resolves to the zero address.
C12_Amended ==
    fn.op \in ResolverOps \cup {"executeTransfer"} /\ fn.args[2] = Undefined =>
        /\ fn.op \in {"getFeeTokenAddress", "getEVMFeeTokenAddress"} =>
              fn.out = Returned(fn.args[1].linkTokenAddress)
        /\ fn.op \in {"getSVMFeeToken", "executeTransfer"} =>
              fn.out = Returned(NativeSentinel(fn.op))

\* a request without a feeToken has gone through the frontend and the
\* backend's resolver
C12_Witness ==
    /\ fn.op = "executeTransfer"
    /\ fn.args[2] = Undefined
    /\ fn.out = Returned(ZeroAddress)

\* the selection as the resolver's switch reads it: as given in the backend,
\* lower-cased in the frontend
Switched(op, feeTokenType) ==
    IF op = "getFeeTokenAddress" THEN feeTokenType ELSE ToLowerCase(feeTokenType)

\* the rules in order, with `default` for every remaining selection
RulesInOrder(op, config, feeTokenType, default) ==
    CASE Switched(op, feeTokenType) = FeeTokenType.NATIVE -> NativeSentinel(op)
      [] Switched(op, feeTokenType) = FeeTokenType.WRAPPED_NATIVE ->
            IF op = "getSVMFeeToken" THEN config.wrappedNativeMint
                                     ELSE config.wrappedNativeAddress
      [] Switched(op, feeTokenType) = FeeTokenType.LINK -> LinkReference(op, config)
      [] OTHER -> IF ConcreteReference(op, feeTokenType) THEN feeTokenType
                                                         ELSE default

\* C13: a resolver applies the rules in order: native gives the zero
\* sentinel, wrapped-native the wrapped reference, link the LINK reference, a
\* syntactically valid token reference is returned verbatim, and every
\* remaining selection gives the LINK reference, the default of an absent one.
C13_RulesInOrderDefaultLink ==
    (fn.op \in ResolverOps /\ fn.args[2] # Undefined) =>
        fn.out = Returned(RulesInOrder(fn.op, fn.args[1], fn.args[2],
                                       LinkReference(fn.op, fn.args[1])))

\* C13, amended: the rules are applied in that order, and every remaining
\* selection gives what the same resolver gives for an absent selection:
\* the LINK reference in the two EVM resolvers, the native sentinel
\* PublicKey.default in getSVMFeeToken.
C13_Amended ==
    (fn.op \in ResolverOps /\ fn.args[2] # Undefined) =>
        fn.out = Returned(RulesInOrder(fn.op, fn.args[1], fn.args[2],
                    IF fn.op = "getSVMFeeToken" THEN PublicKey_default
                                                ELSE fn.args[1].linkTokenAddress))

\* the backend's resolver has returned a token address verbatim
C13_Witness ==
    /\ fn.op = "getFeeTokenAddress"
    /\ fn.args[2] = CUSTOM_TOKEN
    /\ fn.out = Returned(CUSTOM_TOKEN)

\* the send call has been made for the request the backend is serving
SendMade == \E i \in DOMAIN bk.log : bk.log[i] = "ccipSend"

\* C14: the send call carries the quoted fee as attached native value if and
\* only if the fee token resolved to the native sentinel; with any other fee
\* token no native value is attached.
C14_ValueOnlyForNativeFee ==
    SendMade => (bk.value > 0 <=> bk.message.feeToken = ZeroAddress)

\* C15: in every completed record the txHash is the hash of the submission's
\* receipt and the messageId is read from that receipt; neither is generated
\* independently of a receipt.
C15_HashAndIdFromReceipt ==
    (BkAnswered /\ bk.result.success) =>
        /\ bk.result.transfer.txHash = "receipt.hash"
        /\ bk.result.transfer.txHash \notin RandomHex
        /\ bk.result.transfer.messageId \notin RandomHex

\* C16: every frontend executeTransfer call allocates a record with a new
\* id, also for calls within one clock tick, so the ids of the store are
\* pairwise distinct.
C16_IdsPairwiseDistinct ==
    \A i, j \in DOMAIN transfers : i # j => transfers[i].id # transfers[j].id

\* the registry lookups answer unknown chain ids with their errors
UnknownChainFails ==
    /\ (fn.op = "getEVMConfig" /\ fn.args[1] \notin EVMChainIds) =>
          fn.out = Threw(ERR_EVM_CHAIN)
    /\ (fn.op = "getSVMConfig" /\ fn.args[1] # SOLANA_DEVNET) =>
          fn.out = Threw(ERR_SVM_CHAIN)

\* the lookup of an EVM chain id gives a router address and a positive depth
EvmDescriptorComplete ==
    (fn.op = "getEVMConfig" /\ fn.args[1] \in EVMChainIds) =>
        /\ ~fn.out.threw
        /\ fn.out.value.id = fn.args[1]
        /\ fn.out.value.routerAddress # ""
        /\ fn.out.value.confirmations > 0

Occurrences(q, r) == Cardinality({i \in DOMAIN q : q[i] = r})

\* C18: getTransferHistory returns all stored records most recent first,
\* whatever the order they were inserted in, and leaves the store as it was.
C18_HistoryMostRecentFirst ==
    fn.op = "getTransferHistory" =>
        LET before == fn.args[1]
            history == fn.out.value
        IN  /\ ~fn.out.threw
            /\ Len(history) = Len(before)
            /\ \A r \in StoreRecords : Occurrences(history, r) = Occurrences(before, r)
            /\ \A i, j \in DOMAIN history :
                  i < j => history[i].timestamp >= history[j].timestamp
            /\ transfers = before

\* records with timestamps 1 < 2 < 3, inserted in the order 2, 1, 3, have
\* been listed in the order 3, 2, 1
C18_Witness ==
    /\ fn.op = "getTransferHistory"
    /\ Len(fn.args[1]) = 3
    /\ [i \in 1..3 |-> fn.args[1][i].timestamp] = <<2, 1, 3>>
    /\ [i \in 1..3 |-> fn.out.value[i].timestamp] = <<3, 2, 1>>

\* C19: updateTransferStatus merges: the record with the id gets the new
\* status and the given fields and keeps every other field, no other record
\* changes; when no record has the id the store is unchanged.
C19_UpdateMerges ==
    fn.op = "updateTransferStatus" =>
        LET before == fn.args[1]
            status == fn.args[3]
            updates == fn.args[4]
            i == FindIndex(before, fn.args[2])
        IN  IF i = 0
            THEN transfers = before
            ELSE /\ Len(transfers) = Len(before)
                 /\ transfers[i].status = status
                 /\ \A f \in DOMAIN updates : transfers[i][f] = updates[f]
                 /\ \A f \in DOMAIN before[i] \ (DOMAIN updates \cup {"status"}) :
                       transfers[i][f] = before[i][f]
                 /\ DOMAIN transfers[i] = DOMAIN before[i]
                 /\ \A j \in DOMAIN before : j # i => transfers[j] = before[j]

\* a stored record has been set to failed with an error message
C19_Witness ==
    /\ fn.op = "updateTransferStatus"
    /\ FindIndex(fn.args[1], fn.args[2]) # 0
    /\ fn.args[4] = [error |-> "Unknown error"]
    /\ transfers # fn.args[1]

\* the backend has answered a BnM transfer of 10 between two EVM chains, fee
\* in native currency, whose receipt came back
SuccessfulEvmRun ==
    /\ BkAnswered
    /\ bk.req.sourceChain \in EVMChainIds
    /\ bk.req.destinationChain \in EVMChainIds
    /\ bk.req.amount = "10"
    /\ bk.req.asset = "BnM"
    /\ bk.req.feeToken = FeeTokenType.NATIVE
    /\ bk.log = <<"loadEVMWallet", "getFee", "ccipSend", "tx.wait">>
    /\ bk.txHash = "receipt.hash"

\* C20: a BnM transfer of 10 from EVM chain A to EVM chain B with the native
\* fee token, in which signer loading, fee quote, send and confirmation all
\* succeed, yields a completed record with a non-empty txHash and messageId,
\* A's name as sourceChain, B's name as destinationChain and the signer's
\* address as sender.
C20_SuccessfulEvmToEvm ==
    SuccessfulEvmRun =>
        /\ bk.result.success
        /\ bk.result.transfer.status = CCIPTransferStatus.COMPLETED
        /\ bk.result.transfer.txHash \notin {Undefined, ""}
        /\ bk.result.transfer.messageId \notin {Undefined, ""}
        /\ bk.result.transfer.sourceChain = EvmName(bk.req.sourceChain)
        /\ bk.result.transfer.destinationChain = EvmName(bk.req.destinationChain)
        /\ bk.result.transfer.sender = SIGNER_ADDRESS

C20_Witness ==
    /\ SuccessfulEvmRun
    /\ bk.req.sourceChain = ETHEREUM_SEPOLIA
    /\ bk.req.destinationChain = BASE_SEPOLIA
    /\ bk.result.transfer.status = CCIPTransferStatus.COMPLETED

\* the calls a route function makes for one request, in the order it makes them
CallOrder == <<"getFee", "ccipSend", "tx.wait">>

\* the wallet loads left out of the request's log
RpcCalls == SelectSeq(bk.log, LAMBDA x : x \notin {"loadEVMWallet", "loadSolanaWallet"})

\* C21: one attempt per executeTransfer call: at most one fee quote and at
\* most one send call are issued for a request, and a request whose fee
\* quote, send or confirmation failed is answered with no call after the
\* failed one.
C21_SingleAttempt ==
    /\ Occurrences(bk.log, "getFee") <= 1
    /\ Occurrences(bk.log, "ccipSend") <= 1
    /\ RpcCalls = SubSeq(CallOrder, 1, Len(RpcCalls))
    /\ (bk.pc \in {"getFee", "ccipSend", "wait"}) =>
          CallOrder[Len(RpcCalls) + 1] = IF bk.pc = "wait" THEN "tx.wait" ELSE bk.pc

\* a send call was rejected and the request was answered as failed, the
\* rejected send being its last call
C21_Witness ==
    /\ BkAnswered
    /\ bk.log = <<"loadEVMWallet", "getFee", "ccipSend">>
    /\ bk.result.error = ERR_CCIP_SEND
    /\ bk.result.transfer.status = CCIPTransferStatus.FAILED

\* the route function of the request has asked for the source chain's signer
\* and the loader has thrown
SignerFailed ==
    /\ bk.pc # "idle"
    /\ bk.log # << >>
    /\ \/ /\ bk.log[1] = "loadEVMWallet"
          /\ loadEVMWallet(env, SourceConfigOf(env, bk).value.rpcUrl).threw
       \/ /\ bk.log[1] = "loadSolanaWallet"
          /\ loadSolanaWallet(env).threw

\* C23: when the signer of the source chain cannot be loaded (key missing or
\* unusable) executeTransfer does not throw: it returns a failed record whose
\* error is the signer error, and makes no fee quote and no send call.
C23_SignerFailureIsFailedRecord ==
    SignerFailed =>
        /\ BkAnswered
        /\ ~bk.result.success
        /\ bk.result.transfer.status = CCIPTransferStatus.FAILED
        /\ bk.result.transfer.error \in SignerErrors
        /\ bk.result.error = bk.result.transfer.error
        /\ bk.result.error =
              IF bk.log[1] = "loadSolanaWallet"
              THEN loadSolanaWallet(env).error
              ELSE loadEVMWallet(env, SourceConfigOf(env, bk).value.rpcUrl).error
        /\ Len(bk.log) = 1

\* a Solana-source request has been answered as failed for the missing key
C23_Witness ==
    /\ BkAnswered
    /\ env.SOLANA_PRIVATE_KEY = ""
    /\ bk.log = <<"loadSolanaWallet">>
    /\ bk.result.transfer.status = CCIPTransferStatus.FAILED
    /\ bk.result.transfer.error = ERR_SOL_KEY

\* C22: concurrent executeTransfer calls of the frontend do not interfere
\* through the store: the status update made for a call changes the record
\* that call inserted and never the record of another call.
C22_UpdateLandsOnOwnRecord ==
    \A c \in 1..MaxCalls :
        (calls[c].pc = "returned" /\ calls[c].hit # 0) => calls[c].hit = calls[c].idx

\* the asset a token reference of the source descriptor stands for
AssetOfToken(config, token) ==
    CASE token = config.bnmTokenAddress      -> "BnM"
      [] token = config.linkTokenAddress     -> "LINK"
      [] token = config.wrappedNativeAddress -> "WETH"
      [] OTHER                               -> Undefined

\* C24: the token-amount pair of the built message carries the token
\* reference of the request's asset on the source chain (so requests that
\* differ in asset carry different references), the amount scaled by that
\* token's decimals.
C24_TokenReferenceFollowsAsset ==
    (bk.pc \in {"getFee", "ccipSend", "wait"}) =>
        \A i \in DOMAIN bk.message.tokenAmounts :
            AssetOfToken(SourceConfigOf(env, bk).value,
                         bk.message.tokenAmounts[i].token) = bk.req.asset

\* the route function has built the message of the request
MessageBuilt == bk.pc \in {"getFee", "ccipSend", "wait"}

\* C25: the extra-args of the built message depend on the destination family
\* only: empty for an EVM destination; for a Solana destination the 4-byte
\* SVM tag and the struct with compute budget 200000, an all-zero
\* writability bitmap, out-of-order execution allowed, a zero token receiver
\* and no accounts.
C25_ExtraArgsByDestinationFamily ==
    MessageBuilt =>
        /\ isEVMChain(bk.req.destinationChain) =>
              /\ bk.message.extraArgs = [tag |-> "0x"]
              /\ DOMAIN bk.message.extraArgs = {"tag"}
        /\ isSVMChain(bk.req.destinationChain) =>
              /\ bk.message.extraArgs.tag = "0x1f3b3aba"
              /\ bk.message.extraArgs.computeUnits = 200000
              /\ bk.message.extraArgs.accountIsWritableBitmap = 0
              /\ bk.message.extraArgs.allowOutOfOrderExecution = TRUE
              /\ bk.message.extraArgs.tokenReceiver =
                    "0x0000000000000000000000000000000000000000000000000000000000000000"
              /\ bk.message.extraArgs.accounts = << >>

\* a message for a Solana destination has been built
C25_Witness ==
    /\ bk.pc = "getFee"
    /\ bk.req.sourceChain = ETHEREUM_SEPOLIA
    /\ bk.req.destinationChain = SOLANA_DEVNET
    /\ bk.message.extraArgs.tag = "0x1f3b3aba"

\* C26: on every supported route a record becomes completed only after the
\* fee quote returned, then the send call was submitted with the quoted fee,
\* then the wait for the confirmations finished; no completed record exists
\* for a request for which no send call was made.
C26_CompletedOnlyAfterQuoteSendWait ==
    (BkAnswered /\ bk.result.transfer.status = CCIPTransferStatus.COMPLETED) =>
        /\ RpcCalls = CallOrder
        /\ bk.fee \in Fees
        /\ bk.value = bk.fee

\* success exactly with a completed transfer, and an error with every failure
EnvelopeConsistent(result) ==
    /\ result.success <=>
          ( /\ result.transfer # NoTransfer
            /\ result.transfer.status = CCIPTransferStatus.COMPLETED )
    /\ ~result.success => result.error \notin {Undefined, ""}

\* C27: in every result of the backend or the frontend executeTransfer,
\* success is true exactly when the result carries a transfer whose status is
\* completed, and a result with success false carries a non-empty error.
C27_EnvelopeConsistent ==
    \A c \in 1..MaxCalls :
        /\ calls[c].pc = "returned" => EnvelopeConsistent(calls[c].result)
        /\ calls[c].pc = "fetching" =>
              \A a \in Answers(env, now, PostedBody(calls[c].req)) :
                  a.http = 200 => EnvelopeConsistent(a.result)

\* the same for the result the backend answers a request with
BackendEnvelopeConsistent ==
    BkAnswered => EnvelopeConsistent(bk.result)

\* one call has returned a success and another a failure
C27_Witness ==
    \E c \in 1..MaxCalls, d \in 1..MaxCalls :
        /\ calls[c].pc = "returned" /\ calls[d].pc = "returned"
        /\ calls[c].result.success
        /\ calls[c].result.transfer.status = CCIPTransferStatus.COMPLETED
        /\ ~calls[d].result.success
        /\ calls[d].result.transfer # NoTransfer

\* C28: the backend's getFeeTokenAddress and the frontend's
\* getEVMFeeTokenAddress return the same token reference for every EVM
\* descriptor and every selection, selections that differ from the enum
\* values in letter case only (NATIVE, Link) included.
C28_ResolversAgree ==
    /\ fn.op = "getFeeTokenAddress" =>
          fn.out = Returned(getEVMFeeTokenAddress(fn.args[1], fn.args[2]))
    /\ fn.op = "getEVMFeeTokenAddress" =>
          fn.out = Returned(getFeeTokenAddress(fn.args[1], fn.args[2]))

\* the route the dispatcher is to take, from the two chain ids alone
RouteOf(sourceChain, destinationChain) ==
    CASE sourceChain # SOLANA_DEVNET /\ destinationChain # SOLANA_DEVNET -> "EVM_TO_EVM"
      [] sourceChain # SOLANA_DEVNET /\ destinationChain = SOLANA_DEVNET -> "EVM_TO_SVM"
      [] sourceChain = SOLANA_DEVNET /\ destinationChain # SOLANA_DEVNET -> "SVM_TO_EVM"
      [] OTHER -> "UNSUPPORTED"

\* C29: the classification is a total partition that reads the chain id
\* only: exactly one of isEVMChain and isSVMChain holds of every id, every id
\* but solana-devnet is EVM, ids without a descriptor included, and
\* executeTransfer takes the unsupported-combination branch only when source
\* and destination are both solana-devnet.
C29_ClassificationIsPartition ==
    /\ \A chainId \in ChainIds \cup {"", BAD_RECEIVER} :
          /\ isEVMChain(chainId) # isSVMChain(chainId)
          /\ chainId # SOLANA_DEVNET => isEVMChain(chainId)
    /\ (bk.pc # "idle" /\ bk.http # 400) =>
          /\ bk.route = RouteOf(bk.req.sourceChain, bk.req.destinationChain)
          /\ (bk.result.error = ERR_COMBINATION) <=>
                ( /\ bk.req.sourceChain = SOLANA_DEVNET
                  /\ bk.req.destinationChain = SOLANA_DEVNET )

\* a request from a chain without a descriptor to Solana has been routed as
\* EVM to Solana
C29_Witness ==
    /\ BkAnswered
    /\ bk.req.sourceChain = UNLISTED_CHAIN
    /\ bk.req.destinationChain = SOLANA_DEVNET
    /\ bk.route = "EVM_TO_SVM"
    /\ bk.result.error = ERR_EVM_CHAIN

\* C30: whenever executeInvestment of the InvestmentService returns, the
\* transaction record the call pushed is completed or failed, for every
\* intent type, an intent that is none of invest, rebalance and withdraw
\* included.
C30_ReturnedInvestmentIsTerminal ==
    \A c \in 1..MaxCalls :
        executions[c].pc = "returned" =>
            transactions[executions[c].idx].status
                \in {InvestmentExecutionStatus.COMPLETED, InvestmentExecutionStatus.FAILED}

====
